---- MODULE Spec2Model ----
(***************************************************************************)
(* Model of the multicast demo programs of weaveworks-experiments/mballs.  *)
(*                                                                         *)
(*   variant 1  the ball program with a peer table   (mballs.go 1-420)     *)
(*   variant 2  the ball program that remembers the last requester         *)
(*              (mballs.go 422-751)                                        *)
(*   variant 3  mweb, the peer-listing program        (main.go)            *)
(*                                                                         *)
(* A ball is modelled by its horizontal position X and speed Sx (both in   *)
(* the program's units) and by a history field id that names the add-ball  *)
(* input it stems from (0: none).  The vertical physics (Y, Sy), the       *)
(* colour and the curses windows take no part in the protocol and are left *)
(* out.  Time is counted in whole seconds.                                 *)
(***************************************************************************)
EXTENDS Integers, Sequences, FiniteSets, TLC

\* ------------------------------------------------------------ constants
msgWantBall == 0
msgSendBall == 1
msgTakeBall == 2
ball_width == 12
ball_size == 3
updates_per_sec == 20
KickSpeed == 10
\* liveness thresholds in seconds: of the ball program and of mweb
BallExpiry == 1
WebExpiry == 3

\* ------------------------------------------------------------ bounds
\* balls a node holds at once, and add-ball inputs in a run of a single node
MaxBalls == 2
\* add-ball inputs in a run of a group of nodes
BurstBalls == 3
\* seconds the clock runs on beyond the liveness threshold
MaxTime == 1
\* datagram copies in flight at once; a copy that finds the network full is lost
MaxNet == 2
\* columns of the terminal beyond the width of one ball
Slack == 0
\* the most that the count of handled WANTs not yet answered by a SEND records
MaxCredit == 2

\* the nodes of a run and the identities they drew at start-up
Nodes == {"A", "B"}
Identity == [A |-> 3, B |-> 9]

\* the zero Ball a failed Decode leaves behind
ZeroBall == [id |-> 0, Sx |-> 0]

\* datagrams the rest of the multicast group may send to a node that runs alone:
\* SENDs for any identity, WANTs of any identity (the node's own among them: the
\* copy of its own multicast that the kernel loops back), and undecodable bodies
Outside == [to : {"A"}, tag : {msgSendBall}, ok : {TRUE},
            id : {0, 3, 9}, ball : [id : {0}, Sx : {-KickSpeed, 0, KickSpeed}]]
           \cup [to : {"A"}, tag : {msgWantBall}, ok : {TRUE},
                 id : {0, 3, 9}, ball : {ZeroBall}]
           \cup [to : {"A"}, tag : {msgWantBall, msgSendBall, msgTakeBall}, ok : {FALSE},
                 id : {0}, ball : {ZeroBall}]

(* variant, group, quota and grain describe the run and never change: the    *)
(* program the nodes run, the nodes that run, the number of add-ball inputs   *)
(* the users make, and whether a handler of the event loop is one step        *)
(* ("handler") or the select statement and the handler body are two steps     *)
(* with the goroutines running in between ("statement").  running is the set  *)
(* of events taken by the select statement whose handler has not returned.    *)
(* heard, lost and last are history variables: the time stamp of the last     *)
(* WANT the node entered in its peer table, per identity; the balls of which  *)
(* a SEND was lost on its way to a node of the group; in variant 2, the number *)
(* of WANTs the node has handled less the number of SENDs it has written,     *)
(* counted up to MaxCredit; the last step taken.                              *)
VARIABLES variant, group, quota, grain, myID, cols,
          objects, allPeers, lastWantedBall, pending, running, net, now, nextBall,
          peersLock, webpc, webinfo,
          heard, lost, credit, last

vars == <<variant, group, quota, grain, myID, cols,
          objects, allPeers, lastWantedBall, pending, running, net, now, nextBall,
          peersLock, webpc, webinfo,
          heard, lost, credit, last>>

run == <<variant, group, quota, grain, myID, cols>>
web == <<peersLock, webpc, webinfo>>
\* the state of node n that the handlers of its event loop work on
shared(n) == <<objects[n], allPeers[n], lastWantedBall[n]>>

\* ------------------------------------------------------------ data
\* the Peers object that variant 1 keeps as objects[0]
pp == [isBall |-> FALSE, id |-> 0, X |-> 0, Sx |-> 0]
None == [kind |-> "none"]

IsBall(o) == o.isBall
Balls(n) == SelectSeq(objects[n], IsBall)
BallIds(n) == {objects[n][i].id : i \in {j \in 1..Len(objects[n]) : objects[n][j].isBall}}
Width == IF variant = 1 THEN ball_width ELSE ball_size

\* Go's integer division truncates toward zero
GoDiv(a, b) == IF a >= 0 THEN a \div b ELSE -((-a) \div b)

\* the history record of a step
NoEvent == [ev |-> "none", node |-> "A", sends |-> <<>>, log |-> <<>>, arg |-> None]
Event(kind, n, sends, log, arg) ==
    [ev |-> kind, node |-> n, sends |-> sends, log |-> log, arg |-> arg]

\* ------------------------------------------------------------ network
\* a multicast datagram of node n reaches the other nodes of the group; the copy
\* the kernel loops back to n itself is one of the datagrams of Outside
Multicast(n, body) == {[to |-> m, tag |-> body.tag, ok |-> TRUE, id |-> body.id,
                        ball |-> body.ball] : m \in group \ {n}}
\* UDP: each copy is carried or lost; at most MaxNet copies are in flight
Carry(old, copies) == {old \cup S : S \in {T \in SUBSET copies :
                                              Cardinality(old \cup T) <= MaxNet}}

\* sendWant: gob of PeerInfo{myID, hostname} (variant 1), of myID (variant 2)
sendWant(n) == [tag |-> msgWantBall, id |-> myID[n], ball |-> ZeroBall]
\* the datagram sendBallTo writes: gob of dest, then gob of the ball
SendBody(dest, b) == [tag |-> msgSendBall, id |-> dest, ball |-> [id |-> b.id, Sx |-> b.Sx]]

RECURSIVE CarryAll(_, _, _)
CarryAll(old, n, bodies) ==
    IF bodies = <<>> THEN {old}
    ELSE UNION {CarryAll(mid, n, Tail(bodies)) :
                   mid \in Carry(old, Multicast(n, Head(bodies)))}

\* ------------------------------------------------------------ frame tick
(* updateObjects ranges over the slice header it read at the start, while    *)
(* sendBallTo shifts the elements of the same backing array.  A frame is     *)
(* therefore modelled on: arr, the backing array of references (its length   *)
(* is that of objects at the start of the frame); len, the current length of *)
(* objects; heap, the object each reference points to; out, the SENDs        *)
(* written so far; lw, lastWantedBall; log, one entry per call of offedge.   *)
FrameStart(n) ==
    [arr |-> [k \in 1..Len(objects[n]) |-> k],
     len |-> Len(objects[n]),
     heap |-> objects[n],
     out |-> <<>>,
     lw |-> lastWantedBall[n],
     log |-> <<>>]

Held(fs) == {fs.arr[k] : k \in 1..fs.len}

\* objects = append(objects[:i], objects[i+1:]...) for the first i holding ref
removeObject(fs, ref) ==
    LET found == {k \in 1..fs.len : fs.arr[k] = ref}
        j == CHOOSE k \in found : \A m \in found : k <= m
    IN  IF found = {} THEN fs
        ELSE [fs EXCEPT !.arr = [k \in 1..Len(fs.arr) |->
                                    IF k < j THEN fs.arr[k]
                                    ELSE IF k < fs.len THEN fs.arr[k + 1]
                                    ELSE fs.arr[k]],
                        !.len = fs.len - 1]

\* the SEND is written first, then the ball is taken out of objects
sendBallTo(fs, ref, dest) ==
    removeObject([fs EXCEPT !.out = Append(@, [dest |-> dest, ball |-> fs.heap[ref],
                                               ref |-> ref])], ref)

\* a sendBallTo of variant 2 that leaves lastWantedBall as it is
sendBallToV2Keep(fs, ref, dest) ==
    removeObject([fs EXCEPT !.out = Append(@, [dest |-> dest, ball |-> fs.heap[ref],
                                               ref |-> ref])], ref)

sendBallToV2(fs, ref, dest) ==
    [removeObject([fs EXCEPT !.out = Append(@, [dest |-> dest, ball |-> fs.heap[ref],
                                                ref |-> ref])], ref)
        EXCEPT !.lw = 0]

\* a callback of variant 2 that sends without a recorded requester
offedgeV2Blind(fs, ref, n) == {sendBallToV2(fs, ref, fs.lw)}

\* a callback that addresses the ball to the node itself
offedgeToSelf(fs, ref, n) ==
    IF DOMAIN allPeers[n] # {} THEN {sendBallTo(fs, ref, myID[n])} ELSE {fs}

\* the callback the frame ticker passes to updateObjects
offedge(fs, ref, n) ==
    IF DOMAIN allPeers[n] # {}
    THEN {sendBallTo(fs, ref, p) : p \in DOMAIN allPeers[n]}
    ELSE {fs}

offedgeV2(fs, ref, n) ==
    IF fs.lw # 0 THEN {sendBallToV2(fs, ref, fs.lw)} ELSE {fs}

\* what one call of offedge did, for the history: fs is the frame when offedge
\* is called, g the frame when Update returns
Crossing(fs, g, ref, edge, n) ==
    [g EXCEPT !.log = Append(@, [id |-> fs.heap[ref].id,
                                 ref |-> ref,
                                 known |-> IF variant = 1 THEN DOMAIN allPeers[n] # {}
                                           ELSE fs.lw # 0,
                                 sent |-> Len(g.out) > Len(fs.out),
                                 held |-> ref \in Held(g),
                                 before |-> fs.heap[ref].Sx,
                                 after |-> g.heap[ref].Sx,
                                 edge |-> edge])]

\* Ball.Update: move, and at an edge call offedge, then clamp and turn round
Update(fs, ref, mx, n) ==
    LET o == fs.heap[ref]
        x1 == o.X + GoDiv(o.Sx * 100, updates_per_sec)
        moved == [fs EXCEPT !.heap[ref].X = x1]
        called == IF variant = 1 THEN offedge(moved, ref, n) ELSE offedgeV2(moved, ref, n)
    IN  IF ~o.isBall THEN {fs}
        ELSE IF x1 < 0
        THEN {Crossing(moved, [g EXCEPT !.heap[ref].X = 0, !.heap[ref].Sx = -o.Sx],
                       ref, "low", n) : g \in called}
        ELSE IF x1 + Width * 100 > mx * 100
        THEN {Crossing(moved, [g EXCEPT !.heap[ref].X = (mx - Width) * 100,
                                        !.heap[ref].Sx = -o.Sx],
                       ref, "high", n) : g \in called}
        ELSE {moved}

RECURSIVE updateFrom(_, _, _, _)
updateFrom(i, fs, mx, n) ==
    IF i > Len(fs.arr) THEN {fs}
    ELSE UNION {updateFrom(i + 1, g, mx, n) : g \in Update(fs, fs.arr[i], mx, n)}

updateObjects(n, mx) == updateFrom(1, FrameStart(n), mx, n)

\* ------------------------------------------------------------ event loop
\* the events the select statement of node n can take: a value a goroutine
\* offers on a channel, a tick of either ticker, a key pressed by the user
Tick == {[kind |-> "slow"], [kind |-> "frame"]}
Key(n) == IF nextBall < quota /\ Len(Balls(n)) < MaxBalls THEN {[kind |-> "add"]} ELSE {}
Ready(n) == ({pending[n]} \ {None}) \cup Tick \cup Key(n)

\* a select statement that takes an event while a handler is under way
BeginAnytime(n, e) ==
    /\ grain = "statement"
    /\ e \in Ready(n)
    /\ running' = [running EXCEPT ![n] = @ \cup {e}]
    /\ pending' = [pending EXCEPT ![n] = IF e = @ THEN None ELSE @]
    /\ last' = Event("select", n, <<>>, <<>>, e)
    /\ UNCHANGED <<run, objects, allPeers, lastWantedBall, net, now, nextBall, web, heard, lost, credit>>

\* the select statement takes event e; the goroutine that offered it runs on
Begin(n, e) ==
    /\ grain = "statement"
    /\ running[n] = {}
    /\ e \in Ready(n)
    /\ running' = [running EXCEPT ![n] = @ \cup {e}]
    /\ pending' = [pending EXCEPT ![n] = IF e = @ THEN None ELSE @]
    /\ last' = Event("select", n, <<>>, <<>>, e)
    /\ UNCHANGED <<run, objects, allPeers, lastWantedBall, net, now, nextBall, web, heard, lost, credit>>

\* the handler of event e runs to its end
Take(n, e) ==
    IF grain = "statement"
    THEN /\ e \in running[n]
         /\ running' = [running EXCEPT ![n] = @ \ {e}]
         /\ pending' = pending
    ELSE /\ e \in Ready(n)
         /\ running' = running
         /\ pending' = [pending EXCEPT ![n] = IF e = @ THEN None ELSE @]

\* the balls of the SENDs out, written by node n, of which a copy is not in the
\* network after
Dropped(n, out, after) ==
    {out[k].ball.id : k \in {j \in 1..Len(out) :
        ~(Multicast(n, SendBody(out[j].dest, out[j].ball)) \subseteq after)}}

\* case <-frameTicker.C
FrameTick(n) ==
    /\ variant \in {1, 2}
    /\ Take(n, [kind |-> "frame"])
    /\ \E r \in updateObjects(n, cols) :
        /\ objects' = [objects EXCEPT ![n] = [k \in 1..r.len |-> r.heap[r.arr[k]]]]
        /\ lastWantedBall' = [lastWantedBall EXCEPT ![n] = r.lw]
        /\ net' \in CarryAll(net, n, [k \in 1..Len(r.out) |->
                                      SendBody(r.out[k].dest, r.out[k].ball)])
        /\ lost' = lost \cup Dropped(n, r.out, net')
        /\ credit' = [credit EXCEPT ![n] = IF variant = 2 THEN @ - Len(r.out) ELSE @]
        /\ last' = Event("frame", n,
                         [k \in 1..Len(r.out) |->
                             [tag |-> msgSendBall,
                              dest |-> r.out[k].dest, id |-> r.out[k].ball.id,
                              ref |-> r.out[k].ref,
                              held |-> r.out[k].ref \in Held(r)]],
                         r.log, None)
    /\ UNCHANGED <<run, allPeers, now, nextBall, web, heard>>

\* a kick in the opposite direction
kickFirstAway(objs, speed) ==
    LET idle == {k \in 1..Len(objs) : objs[k].isBall /\ objs[k].Sx = 0}
        j == CHOOSE k \in idle : \A m \in idle : k <= m
    IN  IF idle = {} THEN objs ELSE [objs EXCEPT ![j].Sx = -speed]

\* Ball.KickX on the first ball at rest
kickFirst(objs, speed) ==
    LET idle == {k \in 1..Len(objs) : objs[k].isBall /\ objs[k].Sx = 0}
        j == CHOOSE k \in idle : \A m \in idle : k <= m
    IN  IF idle = {} THEN objs ELSE [objs EXCEPT ![j].Sx = speed]

\* an expiry test that takes a record of exactly the threshold's age for stale
expiredAtThreshold(peers, t, threshold) == {k \in DOMAIN peers : peers[k] + threshold <= t}
\* a sweep that empties the table
sweepAll(peers, t, threshold) == [k \in {} |-> 0]

\* the test of the expiry loops: lastHeard.Add(threshold).Before(time.Now())
expired(peers, t, threshold) == {k \in DOMAIN peers : peers[k] + threshold < t}
sweep(peers, t, threshold) ==
    [k \in DOMAIN peers \ expired(peers, t, threshold) |-> peers[k]]
\* a slow tick that leaves the balls moving
stopBallsNot(objs) == objs
\* Ball.KickX(0) on every ball
stopBalls(objs) == [k \in 1..Len(objs) |-> IF objs[k].isBall THEN [objs[k] EXCEPT !.Sx = 0]
                                           ELSE objs[k]]

\* case <-slowTicker.C of variant 1: the balls stop when the loop deletes the
\* last record of the table
SlowTick(n) ==
    /\ variant = 1
    /\ Take(n, [kind |-> "slow"])
    /\ net' \in Carry(net, Multicast(n, sendWant(n)))
    /\ allPeers' = [allPeers EXCEPT ![n] = sweep(@, now, BallExpiry)]
    /\ objects' = [objects EXCEPT ![n] =
                      IF DOMAIN allPeers[n] # {}
                         /\ DOMAIN sweep(allPeers[n], now, BallExpiry) = {}
                      THEN stopBalls(@) ELSE @]
    /\ last' = Event("slow", n, <<[tag |-> msgWantBall, id |-> myID[n]]>>, <<>>,
                     [kind |-> "swept", ids |-> expired(allPeers[n], now, BallExpiry),
                      moving |-> {k \in 1..Len(objects[n]) : objects[n][k].Sx # 0}])
    /\ UNCHANGED <<run, lastWantedBall, now, nextBall, web, heard, lost, credit>>

\* a slow tick that announces whatever the node holds
emptyHandedAlways(n) == TRUE
\* the test of the slow tick of variant 2: len(objects) == 0
emptyHanded(n) == Len(objects[n]) = 0

\* case <-slowTicker.C of variant 2
SlowTickV2(n) ==
    /\ variant = 2
    /\ Take(n, [kind |-> "slow"])
    /\ IF emptyHanded(n)
       THEN /\ net' \in Carry(net, Multicast(n, sendWant(n)))
            /\ last' = Event("slow", n, <<[tag |-> msgWantBall, id |-> myID[n]]>>,
                             <<>>, None)
       ELSE /\ net' = net
            /\ last' = Event("slow", n, <<>>, <<>>, None)
    /\ UNCHANGED <<run, objects, allPeers, lastWantedBall, now, nextBall, web, heard, lost, credit>>

\* allPeers[peer.info.ID] = peer
observe(peers, id, stamp) ==
    [k \in DOMAIN peers \cup {id} |-> IF k = id THEN stamp ELSE peers[k]]

\* case peer := <-ball_wanted of variant 1
BallWanted(n) ==
    /\ variant = 1
    /\ \E e \in running[n] \cup {pending[n]} :
        /\ e.kind = "want"
        /\ Take(n, e)
        /\ allPeers' = [allPeers EXCEPT ![n] = observe(@, e.id, e.lastHeard)]
        /\ heard' = [heard EXCEPT ![n] = observe(@, e.id, e.lastHeard)]
        /\ objects' = [objects EXCEPT ![n] =
                          kickFirst(@, IF e.id < myID[n] THEN -KickSpeed ELSE KickSpeed)]
        /\ last' = Event("want", n, <<>>, <<>>, e)
    /\ UNCHANGED <<run, lastWantedBall, net, now, nextBall, web, lost, credit>>

\* case id := <-ball_wanted of variant 2
BallWantedV2(n) ==
    /\ variant = 2
    /\ \E e \in running[n] \cup {pending[n]} :
        /\ e.kind = "want"
        /\ Take(n, e)
        /\ lastWantedBall' = [lastWantedBall EXCEPT ![n] = e.id]
        /\ credit' = [credit EXCEPT ![n] = IF @ < MaxCredit THEN @ + 1 ELSE @]
        /\ objects' = [objects EXCEPT ![n] = kickFirst(@, KickSpeed)]
        /\ last' = Event("want", n, <<>>, <<>>, e)
    /\ UNCHANGED <<run, allPeers, net, now, nextBall, web, heard, lost>>

\* receiveBall: the ball enters at the edge opposite to the one it left by
receiveBall(objs, b, c) ==
    Append(objs, [isBall |-> TRUE, id |-> b.id,
                  X |-> IF b.Sx < 0 THEN (c - ball_width) * 100 ELSE 0, Sx |-> b.Sx])

receiveBallV2(objs, b, c) ==
    Append(objs, [isBall |-> TRUE, id |-> b.id,
                  X |-> IF b.Sx < 0 THEN c ELSE 0, Sx |-> b.Sx])

\* case ball := <-ball_incoming
BallIncoming(n) ==
    /\ variant \in {1, 2}
    /\ \E e \in running[n] \cup {pending[n]} :
        /\ e.kind = "ball"
        /\ Take(n, e)
        /\ objects' = [objects EXCEPT ![n] =
                          IF variant = 1 THEN receiveBall(@, e.ball, cols)
                          ELSE receiveBallV2(@, e.ball, cols)]
        /\ last' = Event("ball", n, <<>>, <<>>, e)
    /\ UNCHANGED <<run, allPeers, lastWantedBall, net, now, nextBall, web, heard, lost, credit>>

\* addBall: newBall(lines/2, cols/2, 0)
addBall(objs, c, id) ==
    Append(objs, [isBall |-> TRUE, id |-> id, X |-> (c \div 2) * 100, Sx |-> 0])

\* case ch := <-input, 'b'
Input(n) ==
    /\ variant \in {1, 2}
    /\ Take(n, [kind |-> "add"])
    /\ objects' = [objects EXCEPT ![n] = addBall(@, cols, nextBall + 1)]
    /\ nextBall' = nextBall + 1
    /\ last' = Event("add", n, <<>>, <<>>, None)
    /\ UNCHANGED <<run, allPeers, lastWantedBall, net, now, web, heard, lost, credit>>

\* ------------------------------------------------------------ receive goroutine
\* gob's Decode of a body that does not decode leaves the zero value
DecodeID(d) == IF d.ok THEN d.id ELSE 0
DecodeBall(d) == IF d.ok THEN d.ball ELSE ZeroBall

\* a receive goroutine that accepts a SEND whatever its destination
ForwardAny(n, d) ==
    IF d.tag = msgWantBall
    THEN IF DecodeID(d) # myID[n]
         THEN [kind |-> "want", id |-> DecodeID(d),
               lastHeard |-> IF variant = 1 THEN now ELSE 0, ok |-> d.ok]
         ELSE None
    ELSE IF d.tag = msgSendBall
    THEN [kind |-> "ball", ball |-> DecodeBall(d), ok |-> d.ok]
    ELSE None

\* what the goroutine offers to the event loop for datagram d, None if nothing;
\* ok records whether the body of the datagram decoded
Forward(n, d) ==
    IF d.tag = msgWantBall
    THEN IF DecodeID(d) # myID[n]
         THEN [kind |-> "want", id |-> DecodeID(d),
               lastHeard |-> IF variant = 1 THEN now ELSE 0, ok |-> d.ok]
         ELSE None
    ELSE IF d.tag = msgSendBall
    THEN IF DecodeID(d) = myID[n]
         THEN [kind |-> "ball", ball |-> DecodeBall(d), ok |-> d.ok]
         ELSE None
    ELSE None

\* one turn of the receive goroutine: read a datagram, decode it and, if it is
\* for the event loop, block on the channel until the loop takes it
Receive(n, d) ==
    /\ variant \in {1, 2}
    /\ d.to = n
    /\ pending[n] = None
    /\ Forward(n, d).kind = "ball" => Len(Balls(n)) < MaxBalls
    /\ pending' = [pending EXCEPT ![n] = Forward(n, d)]
    /\ net' = net \ {d}
    /\ last' = Event("recv", n, <<>>, <<>>,
                     [kind |-> "datagram", tag |-> d.tag, ok |-> d.ok, id |-> d.id])
    /\ UNCHANGED <<run, objects, allPeers, lastWantedBall, running, now, nextBall, web, heard, lost, credit>>

\* a turn of the receive goroutine on a datagram the transport has duplicated:
\* the goroutine reads one copy, the other stays in flight
ReceiveDuplicate(n, d) ==
    /\ variant \in {1, 2}
    /\ d.to = n
    /\ pending[n] = None
    /\ Forward(n, d).kind = "ball" => Len(Balls(n)) < MaxBalls
    /\ pending' = [pending EXCEPT ![n] = Forward(n, d)]
    /\ net' = net
    /\ last' = Event("recv", n, <<>>, <<>>,
                     [kind |-> "duplicate", tag |-> d.tag, ok |-> d.ok, id |-> d.id])
    /\ UNCHANGED <<run, objects, allPeers, lastWantedBall, running, now, nextBall, web, heard, lost, credit>>

\* ------------------------------------------------------------ environment
Lose(d) ==
    /\ d \in net
    /\ net' = net \ {d}
    /\ lost' = IF d.tag = msgSendBall THEN lost \cup {d.ball.id} ELSE lost
    /\ last' = Event("lose", d.to, <<>>, <<>>,
                     [kind |-> "datagram", tag |-> d.tag, ok |-> d.ok, id |-> d.id])
    /\ UNCHANGED <<run, objects, allPeers, lastWantedBall, pending, running,
                   now, nextBall, web, heard, credit>>

\* time passes; variant 2 never reads the clock
Horizon == IF variant = 1 THEN BallExpiry + MaxTime
           ELSE IF variant = 3 THEN WebExpiry + MaxTime
           ELSE 0

Clock ==
    /\ now < Horizon
    /\ now' = now + 1
    /\ last' = Event("clock", "A", <<>>, <<>>, None)
    /\ UNCHANGED <<run, objects, allPeers, lastWantedBall, pending, running,
                   net, nextBall, web, heard, lost, credit>>

\* ------------------------------------------------------------ mweb
(* mweb runs three goroutines on the peer table: recv, the multicast reader  *)
(* (decodeReceived); tick, the ticker goroutine (sendInfo and expirePeers    *)
(* every second, listPeers every 20 seconds); http, the handler of "/"       *)
(* (listPeers).  webpc is the position of each goroutine: at rest, in front  *)
(* of peersLock.Lock() in one of the three functions ("store", "expire",     *)
(* "list"), or past it ("storing", "expiring", "listing").  webinfo is the   *)
(* PeerInfo that decodeReceived decoded.                                     *)
Goroutines == {"recv", "tick", "http"}
WebIdle == [recv |-> "read", tick |-> "wait", http |-> "idle"]
WebNoInfo == [id |-> 0, ok |-> TRUE]
\* the position past peersLock.Lock() of each position in front of it
Past == [store |-> "storing", expire |-> "expiring", list |-> "listing"]

\* conn.ReadFrom and the Decode of decodeReceived, up to peersLock.Lock()
WebReceive(n, d) ==
    /\ variant = 3
    /\ d.to = n
    /\ webpc["recv"] = "read"
    /\ webpc' = [webpc EXCEPT !["recv"] = "store"]
    /\ webinfo' = [id |-> DecodeID(d), ok |-> d.ok]
    /\ last' = Event("recv", n, <<>>, <<>>,
                     [kind |-> "datagram", tag |-> d.tag, ok |-> d.ok, id |-> d.id])
    /\ UNCHANGED <<run, objects, allPeers, lastWantedBall, pending, running,
                   net, now, nextBall, peersLock, heard, lost, credit>>

\* a lock that lets a goroutine in while another one holds it
LockBarging(g) ==
    /\ variant = 3
    /\ webpc[g] \in DOMAIN Past
    /\ peersLock' = g
    /\ webpc' = [webpc EXCEPT ![g] = Past[@]]
    /\ last' = Event("lock", "A", <<>>, <<>>, [kind |-> "goroutine", name |-> g])
    /\ UNCHANGED <<run, objects, allPeers, lastWantedBall, pending, running,
                   net, now, nextBall, webinfo, heard, lost, credit>>

\* peersLock.Lock() returns in goroutine g
Lock(g) ==
    /\ variant = 3
    /\ webpc[g] \in DOMAIN Past
    /\ peersLock = "free"
    /\ peersLock' = g
    /\ webpc' = [webpc EXCEPT ![g] = Past[@]]
    /\ last' = Event("lock", "A", <<>>, <<>>, [kind |-> "goroutine", name |-> g])
    /\ UNCHANGED <<run, objects, allPeers, lastWantedBall, pending, running,
                   net, now, nextBall, webinfo, heard, lost, credit>>

\* decodeReceived from the lock on: allPeers[info.ID] = &Peer{..., time.Now()}
decodeReceived(n) ==
    /\ variant = 3
    /\ webpc["recv"] = "storing"
    /\ allPeers' = [allPeers EXCEPT ![n] = observe(@, webinfo.id, now)]
    /\ heard' = [heard EXCEPT ![n] = observe(@, webinfo.id, now)]
    /\ peersLock' = "free"
    /\ webpc' = [webpc EXCEPT !["recv"] = "read"]
    /\ webinfo' = WebNoInfo
    /\ last' = Event("store", n, <<>>, <<>>, [kind |-> "info", id |-> webinfo.id,
                                              ok |-> webinfo.ok])
    /\ UNCHANGED <<run, objects, lastWantedBall, pending, running, net, now, nextBall, lost, credit>>

\* case <-ticker.C: sendInfo, then expirePeers up to peersLock.Lock()
sendInfo(n) ==
    /\ variant = 3
    /\ webpc["tick"] = "wait"
    /\ net' \in Carry(net, Multicast(n, sendWant(n)))
    /\ webpc' = [webpc EXCEPT !["tick"] = "expire"]
    /\ last' = Event("tick", n, <<>>, <<>>, None)
    /\ UNCHANGED <<run, objects, allPeers, lastWantedBall, pending, running,
                   now, nextBall, peersLock, webinfo, heard, lost, credit>>

\* expirePeers from the lock on
expirePeers(n) ==
    /\ variant = 3
    /\ webpc["tick"] = "expiring"
    /\ allPeers' = [allPeers EXCEPT ![n] = sweep(@, now, WebExpiry)]
    /\ peersLock' = "free"
    /\ webpc' = [webpc EXCEPT !["tick"] = "wait"]
    /\ last' = Event("expire", n, <<>>, <<>>,
                     [kind |-> "swept", ids |-> expired(allPeers[n], now, WebExpiry)])
    /\ UNCHANGED <<run, objects, lastWantedBall, pending, running, net, now, nextBall,
                   webinfo, heard, lost, credit>>

\* case <-slowerTicker.C, and a request for "/": listPeers up to peersLock.Lock()
Request(g) ==
    /\ variant = 3
    /\ g \in {"tick", "http"}
    /\ webpc[g] = WebIdle[g]
    /\ webpc' = [webpc EXCEPT ![g] = "list"]
    /\ last' = Event("request", "A", <<>>, <<>>, [kind |-> "goroutine", name |-> g])
    /\ UNCHANGED <<run, objects, allPeers, lastWantedBall, pending, running,
                   net, now, nextBall, peersLock, webinfo, heard, lost, credit>>

\* listPeers from the lock on: one line per record of the table
listPeers(n, g) ==
    /\ variant = 3
    /\ webpc[g] = "listing"
    /\ peersLock' = "free"
    /\ webpc' = [webpc EXCEPT ![g] = WebIdle[g]]
    /\ last' = Event("list", n, <<>>, <<>>, [kind |-> "listing", ids |-> DOMAIN allPeers[n]])
    /\ UNCHANGED <<run, objects, allPeers, lastWantedBall, pending, running,
                   net, now, nextBall, webinfo, heard, lost, credit>>

\* ------------------------------------------------------------ specifications
\* the state after start-up of a run of program v by the nodes g
InitRun(v, g, q, gr) ==
    /\ variant = v
    /\ group = g
    /\ quota = q
    /\ grain = gr
    /\ myID = Identity
    /\ cols = (IF v = 1 THEN ball_width ELSE ball_size) + Slack
    /\ objects = [n \in Nodes |-> IF v = 1 /\ n \in g THEN <<pp>> ELSE <<>>]
    /\ allPeers = [n \in Nodes |-> <<>>]
    /\ lastWantedBall = [n \in Nodes |-> 0]
    /\ pending = [n \in Nodes |-> None]
    /\ running = [n \in Nodes |-> {}]
    /\ net = {}
    /\ now = 0
    /\ nextBall = 0
    /\ peersLock = "free"
    /\ webpc = WebIdle
    /\ webinfo = WebNoInfo
    /\ heard = [n \in Nodes |-> <<>>]
    /\ lost = {}
    /\ credit = [n \in Nodes |-> 0]
    /\ last = NoEvent

(* Spec: one node of any of the three programs in a multicast group whose    *)
(* other members may send it any datagram at any time.                       *)
Init == \E v \in {1, 2, 3} : InitRun(v, {"A"}, MaxBalls, "handler")

Next ==
    \/ \E n \in group : FrameTick(n)
    \/ \E n \in group : SlowTick(n)
    \/ \E n \in group : SlowTickV2(n)
    \/ \E n \in group : BallWanted(n)
    \/ \E n \in group : BallWantedV2(n)
    \/ \E n \in group : BallIncoming(n)
    \/ \E n \in group : Input(n)
    \/ \E n \in group : \E d \in Outside : Receive(n, d)
    \/ \E n \in group : \E d \in Outside : WebReceive(n, d)
    \/ \E g \in Goroutines : Lock(g)
    \/ \E n \in group : decodeReceived(n)
    \/ \E n \in group : sendInfo(n)
    \/ \E n \in group : expirePeers(n)
    \/ \E g \in Goroutines : Request(g)
    \/ \E n \in group : \E g \in Goroutines : listPeers(n, g)
    \/ Clock

Spec == Init /\ [][Next]_vars

(* SpecGroup: two nodes of variant 1 on a network that carries or loses each *)
(* datagram when it is sent; the user of node A adds BurstBalls balls.       *)
InitGroup == InitRun(1, {"A", "B"}, BurstBalls, "handler")

NextGroup ==
    \/ \E n \in group : FrameTick(n)
    \/ \E n \in group : SlowTick(n)
    \/ \E n \in group : BallWanted(n)
    \/ \E n \in group : BallIncoming(n)
    \/ Input("A")
    \/ \E n \in group : \E d \in net : Receive(n, d)

SpecGroup == InitGroup /\ [][NextGroup]_vars

(* SpecHandoff: two nodes of variant 1, one ball added at node A, a network  *)
(* that may lose any datagram when it is sent or later, and a clock.         *)
InitHandoff == InitRun(1, {"A", "B"}, 1, "handler")

NextHandoff ==
    \/ \E n \in group : FrameTick(n)
    \/ \E n \in group : SlowTick(n)
    \/ \E n \in group : BallWanted(n)
    \/ \E n \in group : BallIncoming(n)
    \/ Input("A")
    \/ \E n \in group : \E d \in net : Receive(n, d)
    \/ \E d \in net : Lose(d)
    \/ Clock

SpecHandoff == InitHandoff /\ [][NextHandoff]_vars

(* SpecDuplicate: two nodes of variant 1 with distinct identities, one ball   *)
(* added at node A, and a transport that carries or loses each datagram when *)
(* it is sent, delivers the datagrams in flight in any order and may deliver *)
(* a datagram more than once.                                                *)
InitDuplicate == InitRun(1, {"A", "B"}, 1, "handler")

NextDuplicate ==
    \/ \E n \in group : FrameTick(n)
    \/ \E n \in group : SlowTick(n)
    \/ \E n \in group : BallWanted(n)
    \/ \E n \in group : BallIncoming(n)
    \/ Input("A")
    \/ \E n \in group : \E d \in net : Receive(n, d)
    \/ \E n \in group : \E d \in net : ReceiveDuplicate(n, d)

SpecDuplicate == InitDuplicate /\ [][NextDuplicate]_vars

(* SpecLoop: one node of the ball program with the select statement of the   *)
(* event loop and the body of the handler as separate steps, so that the     *)
(* receive goroutine runs while a handler is under way.                      *)
InitLoop == \E v \in {1, 2} : InitRun(v, {"A"}, 1, "statement")

NextLoop ==
    \/ \E n \in group : \E e \in Ready(n) : Begin(n, e)
    \/ \E n \in group : FrameTick(n)
    \/ \E n \in group : SlowTick(n)
    \/ \E n \in group : SlowTickV2(n)
    \/ \E n \in group : BallWanted(n)
    \/ \E n \in group : BallWantedV2(n)
    \/ \E n \in group : BallIncoming(n)
    \/ \E n \in group : Input(n)
    \/ \E n \in group : \E d \in Outside : Receive(n, d)
    \/ Clock

SpecLoop == InitLoop /\ [][NextLoop]_vars

\* ------------------------------------------------------------ properties
\* the SENDs for ball b that are in the network, and the nodes whose receive
\* goroutine has read one that its event loop has not handled yet
InFlight(b) == {d \in net : d.tag = msgSendBall /\ d.ball.id = b}
Handing(b) == {n \in Nodes : \E e \in running[n] \cup {pending[n]} :
                                 e.kind = "ball" /\ e.ball.id = b}
Quiescent(b) == InFlight(b) = {} /\ Handing(b) = {}
Holders(b) == {n \in Nodes : b \in BallIds(n)}

\* C1: in every quiescent state (no SEND for the ball undelivered) each ball
\* created by one add-ball input is in the held set of at most one node
C1_SingleOwnership ==
    \A b \in 1..nextBall : Quiescent(b) => Cardinality(Holders(b)) <= 1

\* C2: every SEND a frame tick emits is for a ball the node no longer holds when
\* the handler returns, and no two SENDs of one frame tick are for the same ball
C2_RemovalAtomic ==
    last.ev = "frame" =>
        \A i \in 1..Len(last.sends) :
            /\ ~last.sends[i].held
            /\ \A j \in 1..Len(last.sends) :
                   i # j => last.sends[i].ref # last.sends[j].ref

\* the step is the receive goroutine of n reading a well-formed SEND addressed
\* to an identity other than n's
ForeignSend(n) ==
    /\ variant \in {1, 2}
    /\ last'.ev = "recv"
    /\ last'.node = n
    /\ last'.arg.tag = msgSendBall
    /\ last'.arg.ok
    /\ last'.arg.id # myID[n]

\* C3: a SEND addressed to another identity is not handed to the event loop and
\* changes neither the held balls, nor the peer table, nor the destination marker
C3_ForeignSendIgnored ==
    [][\A n \in Nodes : ForeignSend(n) =>
           /\ pending'[n] = None
           /\ objects'[n] = objects[n]
           /\ allPeers'[n] = allPeers[n]
           /\ lastWantedBall'[n] = lastWantedBall[n]]_vars

C3_Witness ==
    /\ variant \in {1, 2}
    /\ last.ev = "recv"
    /\ last.arg.tag = msgSendBall
    /\ last.arg.ok
    /\ last.arg.id # myID[last.node]
    /\ Len(Balls(last.node)) = MaxBalls
    /\ pending[last.node] = None

\* the steps of the two-node handoff: B's WANT is handled by A, which holds one
\* Idle ball; A's ball reaches an edge while A knows B; B handles the SEND
WantHandled ==
    /\ last'.ev = "want" /\ last'.node = "A" /\ last'.arg.id = myID["B"]
    /\ Len(Balls("A")) = 1 /\ Balls("A")[1].Sx = 0 /\ Balls("B") = <<>>
EdgeReached ==
    /\ last'.ev = "frame" /\ last'.node = "A" /\ Len(last'.log) > 0
    /\ Len(Balls("A")) = 1 /\ Balls("B") = <<>>
    /\ myID["B"] \in DOMAIN allPeers["A"]
SendHandled ==
    /\ last'.ev = "ball" /\ last'.node = "B"
    /\ Balls("B") = <<>>

\* C4: with A (identity 3) holding one Idle ball and B (identity 9) none, the
\* WANT of B sets the ball moving toward the high edge; when the ball reaches an
\* edge while A knows B, A emits exactly one SEND, addressed to B, and holds no
\* ball; when B handles the SEND, B holds exactly one ball and A none
C4_Handoff ==
    [][/\ WantHandled => /\ Len(Balls("A")') = 1
                         /\ Balls("A")'[1].Sx = KickSpeed
       /\ EdgeReached => /\ Len(last'.sends) = 1
                         /\ last'.sends[1].dest = myID["B"]
                         /\ Balls("A")' = <<>>
       /\ SendHandled => /\ Len(Balls("B")') = 1
                         /\ Balls("A")' = <<>>]_vars

C4_Witness ==
    /\ myID["A"] < myID["B"]
    /\ last.ev = "ball"
    /\ last.node = "B"
    /\ Len(Balls("B")) = 1
    /\ Balls("B")[1].id = 1
    /\ Balls("A") = <<>>
    /\ myID["B"] \in DOMAIN allPeers["A"]

\* C5: a ball that reaches an edge while the node knows no destination is not
\* sent, stays in the held set and has its horizontal speed reversed
C5_IsolatedBounce ==
    last.ev = "frame" =>
        \A k \in 1..Len(last.log) :
            ~last.log[k].known =>
                /\ ~last.log[k].sent
                /\ last.log[k].held
                /\ last.log[k].after = -last.log[k].before

C5_Witness ==
    /\ last.ev = "frame"
    /\ last.sends = <<>>
    /\ \E k \in 1..Len(last.log) :
           /\ ~last.log[k].known
           /\ last.log[k].before # 0
           /\ last.log[k].id \in BallIds(last.node)

\* the liveness threshold of the program that runs
Threshold == IF variant = 3 THEN WebExpiry ELSE BallExpiry
\* the step is an expiry sweep of node n
Swept(n) ==
    /\ variant \in {1, 3}
    /\ last'.ev \in {"slow", "expire"}
    /\ last'.node = n

\* C6: after an expiry sweep at time now no record with now - lastHeard greater
\* than the threshold (1 s in the ball program, 3 s in mweb) is in the table, and
\* every record with now - lastHeard at most the threshold is still there
C6_Expiry ==
    [][\A n \in Nodes : Swept(n) =>
           /\ \A k \in DOMAIN allPeers'[n] : now - allPeers'[n][k] <= Threshold
           /\ \A k \in DOMAIN allPeers[n] :
                  now - allPeers[n][k] <= Threshold =>
                      /\ k \in DOMAIN allPeers'[n]
                      /\ allPeers'[n][k] = allPeers[n][k]]_vars

C6_Witness ==
    /\ variant = 3
    /\ last.ev = "expire"
    /\ last.arg.ids # {}
    /\ \E k \in DOMAIN allPeers[last.node] : now - allPeers[last.node][k] = WebExpiry

\* the identities from which node n observed a WANT within the liveness window
\* that ends now
Window(n) == {k \in DOMAIN heard[n] : now - heard[n][k] <= Threshold}

\* C7 as stated: the size of the peer table equals the number of distinct
\* identities from which a WANT was observed within the liveness window
C7_TableIsWindow ==
    \A n \in group : variant \in {1, 3} =>
        Cardinality(DOMAIN allPeers[n]) = Cardinality(Window(n))

\* C7 amended: every identity other than the node's own from which a WANT was
\* observed within the liveness window is a key of the peer table, and right
\* after an expiry sweep the keys of the table other than the node's own are
\* exactly those identities
C7_TableCoversWindow ==
    \A n \in group : variant \in {1, 3} =>
        /\ Window(n) \ {myID[n]} \subseteq DOMAIN allPeers[n]
        /\ (last.ev \in {"slow", "expire"} /\ last.node = n) =>
               DOMAIN allPeers[n] \ {myID[n]} = Window(n) \ {myID[n]}

C7_Witness ==
    /\ variant = 1
    /\ last.ev = "slow"
    /\ last.arg.ids # {}
    /\ Window(last.node) # {}
    /\ Cardinality(DOMAIN heard[last.node]) > Cardinality(Window(last.node))

\* C8: a node's own identity is never a key of its own peer table
C8_SelfFiltered ==
    \A n \in group : myID[n] \notin DOMAIN allPeers[n]

\* C9: the handler of an event that stems from a datagram whose body did not
\* decode leaves the peer table, the destination marker and the held balls as
\* they were
C9_MalformedDropped ==
    [][\A n \in Nodes :
           (last'.ev \in {"want", "ball", "store"} /\ last'.node = n /\ ~last'.arg.ok) =>
               /\ objects'[n] = objects[n]
               /\ allPeers'[n] = allPeers[n]
               /\ lastWantedBall'[n] = lastWantedBall[n]]_vars

\* C10: at most one handler of an event loop is under way at any time, and the
\* held balls, the peer table and the destination marker of a node change only
\* in the step in which the one handler under way runs to its end
C10_Serialized ==
    /\ [](\A n \in Nodes : Cardinality(running[n]) <= 1)
    /\ [][\A n \in Nodes : shared(n)' # shared(n) =>
              /\ Cardinality(running[n]) = 1
              /\ running'[n] = {}]_vars

C10_Witness ==
    /\ grain = "statement"
    /\ last.ev = "recv"
    /\ running[last.node] # {}
    /\ pending[last.node] # None
    /\ Len(Balls(last.node)) > 0

\* the WANTs the last step wrote to the network
WantsSent == {k \in 1..Len(last.sends) : last.sends[k].tag = msgWantBall}

\* C11: in variant 2 a slow tick writes a WANT if and only if the node holds
\* nothing at that tick (the tick leaves the held set as it is), and no other
\* event writes a WANT
C11_AnnounceWhenEmpty ==
    variant = 2 =>
        /\ last.ev = "slow" => (WantsSent # {} <=> Len(objects[last.node]) = 0)
        /\ last.ev # "slow" => WantsSent = {}

C11_Witness ==
    /\ variant = 2
    /\ last.ev = "slow"
    /\ WantsSent = {}
    /\ Len(objects[last.node]) > 0
    /\ lastWantedBall[last.node] # 0

\* the step is a frame tick of node n in which a ball reaches an edge, right after
\* n handled a well-formed WANT in variant 2
EdgeAfterWant(n) ==
    /\ variant = 2
    /\ last.ev = "want" /\ last.node = n /\ last.arg.ok
    /\ last'.ev = "frame" /\ last'.node = n
    /\ Len(last'.log) > 0

\* C12: in variant 2 the first ball that reaches an edge after a WANT of peer P
\* was handled is sent in a SEND addressed to P, whatever the identity P
C12_RequesterIsDestination ==
    [][\A n \in Nodes : EdgeAfterWant(n) =>
           /\ last'.log[1].sent
           /\ last'.sends[1].dest = last.arg.id]_vars

\* the same for the peers whose identity is not 0
C12_NonZeroRequester ==
    [][\A n \in Nodes : (EdgeAfterWant(n) /\ last.arg.id # 0) =>
           /\ last'.log[1].sent
           /\ last'.sends[1].dest = last.arg.id]_vars

\* the balls at rest among objs, and objs with the first of them moving at speed
IdleAt(objs) == {k \in 1..Len(objs) : objs[k].isBall /\ objs[k].Sx = 0}
FirstKicked(objs, speed) ==
    [k \in 1..Len(objs) |->
        IF k \in IdleAt(objs) /\ (\A m \in IdleAt(objs) : k <= m)
        THEN [objs[k] EXCEPT !.Sx = speed]
        ELSE objs[k]]
\* the step is node n handling a well-formed WANT in one of the ball variants v
WantStep(n, v) ==
    /\ variant \in v
    /\ last'.ev = "want" /\ last'.node = n /\ last'.arg.ok

\* C13: handling the WANT of peer P sets the first Idle ball moving, toward the
\* low edge when P's identity is lower than the node's own and toward the high
\* edge otherwise, and changes no other ball
C13_KickByTieBreak ==
    [][\A n \in Nodes : WantStep(n, {1, 2}) =>
           objects'[n] = FirstKicked(objects[n],
                                     IF last'.arg.id < myID[n] THEN -KickSpeed
                                     ELSE KickSpeed)]_vars

\* the same for the peer-table variant alone
C13_TieBreakPeerTable ==
    [][\A n \in Nodes : WantStep(n, {1}) =>
           objects'[n] = FirstKicked(objects[n],
                                     IF last'.arg.id < myID[n] THEN -KickSpeed
                                     ELSE KickSpeed)]_vars

\* the ball that receiveBall appended in the last step
Arrived == objects[last.node][Len(objects[last.node])]

\* C14: the ball of a SEND that a node has just accepted is in its held set at
\* rest (horizontal speed 0)
C14_ArrivesIdle ==
    (last.ev = "ball" /\ last.arg.ok) =>
        /\ Arrived.id = last.arg.ball.id
        /\ Arrived.Sx = 0

\* C15: in variant 1 every SEND of a frame tick is addressed to a key of the
\* node's peer table (which the frame tick does not change), so never to the
\* node itself nor to a peer that a sweep removed and that was not heard since,
\* and every edge crossing with a non-empty table writes exactly one SEND
C15_DestinationIsLive ==
    (variant = 1 /\ last.ev = "frame") =>
        /\ \A k \in 1..Len(last.sends) :
               /\ last.sends[k].dest \in DOMAIN allPeers[last.node]
               /\ last.sends[k].dest # myID[last.node]
        /\ DOMAIN allPeers[last.node] # {} =>
               /\ Len(last.sends) = Len(last.log)
               /\ \A k \in 1..Len(last.log) :
                      /\ last.log[k].sent
                      /\ last.sends[k].ref = last.log[k].ref

C15_Witness ==
    /\ variant = 1
    /\ last.ev = "frame"
    /\ last.sends # <<>>
    /\ DOMAIN heard[last.node] \ DOMAIN allPeers[last.node] # {}

\* the position of a ball that sits at the high edge of the terminal, as
\* Ball.Update clamps it
HighEdge == (cols - Width) * 100
\* objs with ball b placed at the edge opposite to the one it left by
Placed(objs, b) ==
    Append(objs, [isBall |-> TRUE, id |-> b.id,
                  X |-> IF b.Sx < 0 THEN HighEdge ELSE 0, Sx |-> b.Sx])
\* the step is node n handling a well-formed SEND in one of the ball variants v
BallStep(n, v) ==
    /\ variant \in v
    /\ last'.ev = "ball" /\ last'.node = n /\ last'.arg.ok

\* C16: receiveBall appends exactly one ball, at the high edge when it arrives
\* with negative horizontal speed and at x = 0 otherwise, and changes neither
\* another held ball nor the peer table
C16_PlacedOpposite ==
    [][\A n \in Nodes : BallStep(n, {1, 2}) =>
           /\ objects'[n] = Placed(objects[n], last'.arg.ball)
           /\ allPeers'[n] = allPeers[n]]_vars

\* the same for the peer-table variant alone
C16_PlacedOppositePeerTable ==
    [][\A n \in Nodes : BallStep(n, {1}) =>
           /\ objects'[n] = Placed(objects[n], last'.arg.ball)
           /\ allPeers'[n] = allPeers[n]]_vars

\* C17: once a SEND carrying a ball is lost, no node holds that ball and no
\* frame tick writes another SEND for it
C17_NoRetryAfterLoss ==
    [][\A b \in lost :
           /\ Holders(b)' = {}
           /\ last'.ev = "frame" =>
                  \A k \in 1..Len(last'.sends) : last'.sends[k].id # b]_vars

\* a state after the loss of a SEND
C17_Lost ==
    /\ lost # {}
    /\ last.ev \notin {"lose", "frame"}
    /\ \A b \in lost : Quiescent(b)

\* goroutine g of mweb is past peersLock.Lock() and in front of the Unlock
Inside(g) == webpc[g] \in {"storing", "expiring", "listing"}

\* C18: at most one goroutine of mweb is inside a function that reads or writes
\* the peer table, and it holds peersLock; the table is written and listed only
\* by a step of the holder, which releases the lock in that step; whenever the
\* lock is held its holder is inside and can run on to the release
C18_PeersLock ==
    /\ [](\A g, h \in Goroutines : (Inside(g) /\ Inside(h)) => g = h)
    /\ [](\A g \in Goroutines : Inside(g) <=> peersLock = g)
    /\ [][(variant = 3 /\ (allPeers' # allPeers \/ last'.ev = "list")) =>
              \E g \in Goroutines :
                  /\ peersLock = g
                  /\ Inside(g)
                  /\ ~Inside(g)'
                  /\ peersLock' = "free"]_vars

C18_Witness ==
    /\ variant = 3
    /\ peersLock = "tick"
    /\ webpc = [recv |-> "store", tick |-> "expiring", http |-> "list"]
    /\ DOMAIN allPeers["A"] # {}

\* the calls of offedge of the last frame tick that came after a SEND of that tick
AfterSend == {k \in 1..Len(last.log) : \E j \in 1..(k - 1) : last.log[j].sent}

\* C19: in variant 2 a node has written at most as many SENDs as it has handled
\* WANTs; a frame tick writes at most one SEND and leaves the destination
\* marker cleared when it wrote one; a ball that reaches an edge after the SEND
\* of the same tick is not sent, stays held and turns round
C19_OneSendPerWant ==
    variant = 2 =>
        /\ \A n \in Nodes : credit[n] >= 0
        /\ last.ev = "frame" =>
               /\ Len(last.sends) <= 1
               /\ last.sends # <<>> => lastWantedBall[last.node] = 0
               /\ \A k \in AfterSend :
                      /\ ~last.log[k].sent
                      /\ last.log[k].held
                      /\ last.log[k].after = -last.log[k].before

C19_Witness ==
    /\ variant = 2
    /\ last.ev = "frame"
    /\ Len(last.sends) = 1
    /\ AfterSend # {}
    /\ credit[last.node] = 0
    /\ Len(objects[last.node]) > 0

\* objs with every ball at rest
AllIdle(objs) ==
    [k \in 1..Len(objs) |-> IF objs[k].isBall THEN [objs[k] EXCEPT !.Sx = 0] ELSE objs[k]]

\* C20: in variant 1 a slow tick whose sweep removes the last record of the peer
\* table sets the horizontal speed of every held ball to 0 and changes nothing
\* else of the balls; a slow tick on an empty table, or one that leaves a record
\* in the table, leaves the held balls exactly as they were
C20_StopWhenAlone ==
    [][\A n \in Nodes : (variant = 1 /\ last'.ev = "slow" /\ last'.node = n) =>
           objects'[n] = IF DOMAIN allPeers[n] # {} /\ DOMAIN allPeers'[n] = {}
                         THEN AllIdle(objects[n])
                         ELSE objects[n]]_vars

C20_Witness ==
    /\ variant = 1
    /\ last.ev = "slow"
    /\ last.arg.ids # {}
    /\ last.arg.moving # {}
    /\ DOMAIN allPeers[last.node] = {}
    /\ \A k \in 1..Len(objects[last.node]) : objects[last.node][k].Sx = 0

\* the number of balls in the held sets of all nodes
RECURSIVE HeldBy(_)
HeldBy(S) ==
    IF S = {} THEN 0
    ELSE LET n == CHOOSE m \in S : TRUE IN Len(Balls(n)) + HeldBy(S \ {n})

\* C21: for nodes with distinct identities, on a transport that may lose,
\* reorder and duplicate datagrams, the number of balls held by all the nodes
\* together never exceeds the number of add-ball inputs performed so far
C21_NoBallFromNetwork ==
    (\A n, m \in group : myID[n] = myID[m] => n = m) => HeldBy(Nodes) <= nextBall

====
